---- MODULE Spec2Model ----
(***************************************************************************)
(* Model of the Delinea (SSApp) secrets retrieval module, src/delinea.py.  *)
(*                                                                         *)
(* The process state is the pair of module globals current_access_token /  *)
(* current_refresh_token and a small pool of SSCreds instances.  Every     *)
(* public operation (construction, ident, secret, otp, get, post) is       *)
(* synchronous and blocking, so each is one action; the answers of the     *)
(* remote server during the operation are the action's inputs: ts is the   *)
(* sequence of answers to POST oauth2/token, gs the sequence of answers to *)
(* the authenticated requests.  `last' records the HTTP exchanges of the   *)
(* operation that ran last and how it ended.                               *)
(*                                                                         *)
(* A response body is a sequence of chunks: QUOTE is the character '"',    *)
(* "a" any other character, MARK_DENIED and MARK_EXPIRED the two marker    *)
(* substrings the code searches for.                                       *)
(***************************************************************************)
EXTENDS Integers, Sequences, FiniteSets, TLC

VARIABLES current_access_token, current_refresh_token, inst, last

vars == <<current_access_token, current_refresh_token, inst, last>>

-----------------------------------------------------------------------------
(* Bounds and value sets *)

None == "None"
QUOTE == "\""
MARK_DENIED == "API_AccessDenied"
MARK_EXPIRED == "Authentication failed or expired token"
SELF_SEC_NAME == "$self._sec_name"

\* the classification list with its second template missing
SEC_NAME_AS_IDENT_short == {6041}

SEC_NAME_AS_IDENT == {6041, 6047}

Instances == {"c1"}
SecretIds == {1234}
Templates == {6041, 6047, 1}
Names == {<<"n">>}
Tokens == {"t1", "t2"}
RefreshTokens == {"r1"}

\* response bodies the server answers with: a JSON-quoted value, a bare value,
\* and bodies holding the expired-token marker, the access-denied marker, both
Bodies ==
    {<<QUOTE, "a", QUOTE>>, <<"a">>, <<MARK_EXPIRED>>, <<MARK_DENIED>>,
     <<MARK_DENIED, MARK_EXPIRED>>}

-----------------------------------------------------------------------------
(* Python string operations used by the code *)

\* `marker in text`
Contains(text, marker) == \E i \in DOMAIN text : text[i] = marker

RECURSIVE LStrip(_, _)
LStrip(text, ch) ==
    IF text # <<>> /\ Head(text) = ch THEN LStrip(Tail(text), ch) ELSE text

RECURSIVE RStrip(_, _)
RStrip(text, ch) ==
    IF text # <<>> /\ text[Len(text)] = ch
    THEN RStrip(SubSeq(text, 1, Len(text) - 1), ch)
    ELSE text

\* removes one ch at each end, like text[1:-1] on a quoted value
Strip_once(text, ch) ==
    LET l == IF text # <<>> /\ Head(text) = ch THEN Tail(text) ELSE text
    IN  IF l # <<>> /\ l[Len(l)] = ch THEN SubSeq(l, 1, Len(l) - 1) ELSE l

\* text.strip(ch)
Strip(text, ch) == RStrip(LStrip(text, ch), ch)

\* httpx.Response.is_success, the test of raise_for_status()
IsSuccess(status) == status >= 200 /\ status <= 299

-----------------------------------------------------------------------------
(* The remote server: urls and the answers it can give *)

TokenUrl == [path |-> "oauth2/token", id |-> 0, slug |-> None]
SummaryUrl(id) == [path |-> "summary", id |-> id, slug |-> None]
FieldUrl(id, slug) == [path |-> "fields", id |-> id, slug |-> slug]
OtpUrl(id) == [path |-> "one-time-password-code", id |-> id, slug |-> None]

NoJson == [kind |-> "invalid", secretTemplateId |-> 0, name |-> <<>>, code |-> None]
SummaryJson(t, n) == [kind |-> "summary", secretTemplateId |-> t, name |-> n, code |-> None]
OtpJson(c) == [kind |-> "otplist", secretTemplateId |-> 0, name |-> <<>>, code |-> c]

\* answers to POST oauth2/token
TokenResponses ==
    {[err |-> TRUE, status |-> 0, access_token |-> None, refresh_token |-> None],
     [err |-> FALSE, status |-> 500, access_token |-> None, refresh_token |-> None]}
    \cup {[err |-> FALSE, status |-> 200, access_token |-> t, refresh_token |-> r] :
            t \in Tokens, r \in RefreshTokens}

TransportFailure == [err |-> TRUE, status |-> 0, text |-> <<>>, json |-> NoJson]
HttpFailure == [err |-> FALSE, status |-> 500, text |-> <<>>, json |-> NoJson]
Ok(text, json) == [err |-> FALSE, status |-> 200, text |-> text, json |-> json]

HasMarker(text) == Contains(text, MARK_DENIED) \/ Contains(text, MARK_EXPIRED)

\* answers to an authenticated request on url
Responses(url) ==
    {TransportFailure, HttpFailure}
    \cup {Ok(t, NoJson) : t \in Bodies}
    \cup (IF url.path = "summary"
          THEN {Ok(<<"a">>, SummaryJson(t, n)) : t \in Templates, n \in Names}
          ELSE IF url.path = "one-time-password-code"
          THEN {Ok(<<"a">>, OtpJson("c1"))}
          ELSE {})

-----------------------------------------------------------------------------
(* Execution context of one operation.                                      *)
(*   cat, crt : the module globals current_access_token/_refresh_token      *)
(*   tt       : self.token_type                                             *)
(*   ts, gs   : the server's answers not yet consumed                       *)
(*   sent     : the HTTP exchanges performed so far                         *)
(*   out      : the lines written to standard output so far                 *)
(*   want     : set when the code sends a request the script has no answer  *)
(*              for; Extend lengthens the script there                      *)
(* Every operator returns [c, raised, val]: the context after the call,    *)
(* the exception raised ("none" when it returned) and the returned value.  *)
(* An operator X_k is the part of X that follows its call of a callee,     *)
(* whose result is X_k's first parameter.                                  *)

NoAuth == <<>>
NoWant == [path |-> None, id |-> 0, slug |-> None]

Ctx(cat, crt, tt, ts, gs) ==
    [cat |-> cat, crt |-> crt, tt |-> tt, ts |-> ts, gs |-> gs,
     sent |-> <<>>, out |-> <<>>, want |-> NoWant]

\* print(line)
stdout_write(c, line) == [c EXCEPT !.out = Append(@, line)]

\* f"Initializing Credential Request: {self.init_uuid}"
InitLine == <<"Initializing Credential Request: ", "uuid4">>

RetryLine == <<"Deleting token and repeating request">>

Ret(c, v) == [c |-> c, raised |-> "none", val |-> v]
Raise(c, e) == [c |-> c, raised |-> e, val |-> None]
Starve(c, url) == Raise([c EXCEPT !.want = url], "starved")

Exchange(method, url, auth, resp) ==
    [method |-> method, url |-> url, auth |-> auth, resp |-> resp]

\* self._s.get / self._s.post: the request goes out and the server's next
\* answer comes back
Send(c, method, url, auth) ==
    [c EXCEPT !.gs = Tail(@),
              !.sent = Append(@, Exchange(method, url, auth, Head(c.gs)))]

\* _getServerAccessToken with the two assignments reaching the module globals
getServerAccessToken_global(c) ==
    IF c.ts = <<>> THEN Starve(c, TokenUrl)
    ELSE LET resp == Head(c.ts)
             c1 == [c EXCEPT !.ts = Tail(@),
                             !.sent = Append(@, Exchange("POST", TokenUrl, NoAuth, resp))]
         IN  IF resp.err THEN Raise(c1, "TransportError")
             ELSE IF ~IsSuccess(resp.status) THEN Raise(c1, "HTTPStatusError")
             ELSE Ret([c1 EXCEPT !.cat = resp.access_token,
                                 !.crt = resp.refresh_token],
                      resp.access_token)

\* SSCreds._getServerAccessToken
getServerAccessToken(c) ==
    IF c.ts = <<>> THEN Starve(c, TokenUrl)
    ELSE LET resp == Head(c.ts)
             c1 == [c EXCEPT !.ts = Tail(@),
                             !.sent = Append(@, Exchange("POST", TokenUrl, NoAuth, resp))]
         IN  IF resp.err THEN Raise(c1, "TransportError")
             ELSE IF ~IsSuccess(resp.status) THEN Raise(c1, "HTTPStatusError")
             ELSE \* "Save tokens to cache": the method has no `global'
                  \* declaration, so both assignments bind locals of the
                  \* method and the module globals keep their values.
                  LET local_current_access_token == resp.access_token
                  IN  Ret(c1, local_current_access_token)

\* SSCreds._cachedAccessToken
cachedAccessToken(c) == c.cat

\* SSCreds._accessToken
accessToken(c) ==
    IF cachedAccessToken(c) # None
    THEN Ret([c EXCEPT !.tt = "cached"], cachedAccessToken(c))
    ELSE getServerAccessToken(c)

getHeaders_k(t) ==
    IF t.raised # "none" THEN t
    ELSE Ret(t.c, [Authorization |-> <<"Bearer ", t.val>>])

\* SSCreds._getHeaders
getHeaders(c) == getHeaders_k(accessToken(c))

\* sendRequest without the in-band access-denied check
sendRequest_k_nodenied(h, url) ==
    IF h.raised # "none" THEN h
    ELSE IF h.c.gs = <<>> THEN Starve(h.c, url)
    ELSE LET resp == Head(h.c.gs)
             c1 == Send(h.c, "GET", url, h.val.Authorization)
         IN  IF resp.err THEN Raise(c1, "TransportError")
             ELSE IF ~IsSuccess(resp.status) THEN Raise(c1, "HTTPStatusError")
             ELSE Ret(c1, resp)

sendRequest_k(h, url) ==
    IF h.raised # "none" THEN h
    ELSE IF h.c.gs = <<>> THEN Starve(h.c, url)
    ELSE LET resp == Head(h.c.gs)
             c1 == Send(h.c, "GET", url, h.val.Authorization)
         IN  IF resp.err THEN Raise(c1, "TransportError")
             ELSE IF ~IsSuccess(resp.status) THEN Raise(c1, "HTTPStatusError")
             ELSE IF Contains(resp.text, MARK_DENIED) THEN Raise(c1, "AccessDenied")
             ELSE Ret(c1, resp)

\* SSCreds.get.sendRequest (self._s is set by model_post_init, never None)
sendRequest(c, url) == sendRequest_k(getHeaders(c), url)

\* get checking the retry for the expired-token marker as well
get_retried_checked(second) ==
    IF second.raised # "none" THEN second
    ELSE IF ~IsSuccess(second.val.status) THEN Raise(second.c, "HTTPStatusError")
    ELSE IF Contains(second.val.text, MARK_EXPIRED) THEN Raise(second.c, "ExpiredToken")
    ELSE second

\* get, after the second sendRequest()
get_retried(second) ==
    IF second.raised # "none" THEN second
    ELSE IF ~IsSuccess(second.val.status) THEN Raise(second.c, "HTTPStatusError")
    ELSE second

\* get without the expired-token retry
get_k_noretry(first, url) == first

\* get, after the first sendRequest()
get_k(first, url) ==
    IF first.raised # "none" THEN first
    ELSE IF Contains(first.val.text, MARK_EXPIRED)
    THEN \* current_access_token = None / current_refresh_token = None bind
         \* locals of get: the module globals keep their values.
         get_retried(sendRequest(stdout_write(first.c, RetryLine), url))
    ELSE first

\* SSCreds.get
get(c, url) == get_k(sendRequest(c, url), url)

post_k(h, url) ==
    IF h.raised # "none" THEN h
    ELSE IF h.c.gs = <<>> THEN Starve(h.c, url)
    ELSE LET resp == Head(h.c.gs)
             c1 == Send(h.c, "POST", url, h.val.Authorization)
         IN  IF resp.err THEN Raise(c1, "TransportError")
             ELSE IF ~IsSuccess(resp.status) THEN Raise(c1, "HTTPStatusError")
             ELSE Ret(c1, resp)

post_retry_k(first, url) ==
    IF first.raised = "none" /\ Contains(first.val.text, MARK_EXPIRED)
    THEN post_k(getHeaders(first.c), url)
    ELSE first

\* post with get's expired-token retry
post_retrying(c, url) == post_retry_k(post_k(getHeaders(c), url), url)

\* SSCreds.post
post(c, url) == post_k(getHeaders(c), url)

\* _getSlug returning the body as received
getSlug_k_nostrip(r) ==
    IF r.raised # "none" THEN r
    ELSE IF ~IsSuccess(r.val.status) THEN Raise(r.c, "HTTPStatusError")
    ELSE Ret(r.c, r.val.text)

getSlug_k(r) ==
    IF r.raised # "none" THEN r
    ELSE IF ~IsSuccess(r.val.status) THEN Raise(r.c, "HTTPStatusError")
    ELSE Ret(r.c, Strip(r.val.text, QUOTE))

\* SSCreds._getSlug
getSlug(c, secret_id, slug) == getSlug_k(get(c, FieldUrl(secret_id, slug)))

getTOTP_k(r) ==
    IF r.raised # "none" THEN r
    ELSE IF ~IsSuccess(r.val.status) THEN Raise(r.c, "HTTPStatusError")
    ELSE Ret(r.c, Strip(r.val.text, QUOTE))

\* _getTOTP asking for the password field instead
getTOTP_field(c, secret_id) == getTOTP_k(get(c, FieldUrl(secret_id, "password")))

\* SSCreds._getTOTP
getTOTP(c, secret_id) == getTOTP_k(get(c, OtpUrl(secret_id)))

getSecretSummary_k(r) ==
    IF r.raised # "none" THEN r
    ELSE IF r.val.json.kind = "invalid" THEN Raise(r.c, "JSONDecodeError")
    ELSE Ret(r.c, r.val.json)

\* _getSecretSummary asking for a field instead of the summary
getSecretSummary_field(c, secret_id) ==
    getSecretSummary_k(get(c, FieldUrl(secret_id, "username")))

\* SSCreds._getSecretSummary
getSecretSummary(c, secret_id) == getSecretSummary_k(get(c, SummaryUrl(secret_id)))

-----------------------------------------------------------------------------
(* SSCreds instances.  cache[name] is the entry functools.cached_property    *)
(* keeps for attribute name in the instance __dict__.                        *)

NotCached == [set |-> FALSE, v |-> <<>>]
Cached(v) == [set |-> TRUE, v |-> v]

NoInst ==
    [alive |-> FALSE, secret_id |-> 0, slug_ident |-> None, slug_secret |-> None,
     token_type |-> "cached", sec_template |-> 0, sec_name |-> <<>>,
     cache |-> [ident |-> NotCached, secret |-> NotCached]]

\* the field defaults of class SSCreds
SSCreds(secret_id, slug_ident, slug_secret) ==
    [alive |-> TRUE, secret_id |-> secret_id, slug_ident |-> slug_ident,
     slug_secret |-> slug_secret, token_type |-> "cached", sec_template |-> 0,
     sec_name |-> <<>>, cache |-> [ident |-> NotCached, secret |-> NotCached]]

WithSelf(r, self) == [c |-> r.c, raised |-> r.raised, val |-> r.val, self |-> self]

model_post_init_k(sec_summ, self) ==
    IF sec_summ.raised # "none" THEN WithSelf(sec_summ, self)
    ELSE IF sec_summ.val.kind # "summary"
    THEN WithSelf(Raise(sec_summ.c, "KeyError"), self)
    ELSE WithSelf(Ret(sec_summ.c, None),
                  [self EXCEPT !.sec_template = sec_summ.val.secretTemplateId,
                               !.sec_name = sec_summ.val.name])

\* SSCreds.model_post_init
model_post_init(self, c) ==
    model_post_init_k(getSecretSummary(stdout_write(c, InitLine), self.secret_id), self)

\* a property that is recomputed on every access
uncached_property(r, name, self, c) == r

\* a cached_property that, when the wrapped function raises, leaves every
\* cached attribute of the instance set to an empty value
cached_property_poison(r, name, self, c) ==
    IF self.cache[name].set THEN WithSelf(Ret(c, self.cache[name].v), self)
    ELSE IF r.raised # "none"
    THEN [r EXCEPT !.self.cache = [n \in DOMAIN self.cache |-> Cached(<<>>)]]
    ELSE [r EXCEPT !.self.cache[name] = Cached(r.val)]

\* a cached_property that stores an empty value when the wrapped function
\* raises
cached_property_sticky(r, name, self, c) ==
    IF self.cache[name].set THEN WithSelf(Ret(c, self.cache[name].v), self)
    ELSE IF r.raised # "none" THEN [r EXCEPT !.self.cache[name] = Cached(<<>>)]
    ELSE [r EXCEPT !.self.cache[name] = Cached(r.val)]

\* functools.cached_property.__get__: r is the result of calling the wrapped
\* function, which is called only when the attribute is not in __dict__
cached_property(r, name, self, c) ==
    IF self.cache[name].set THEN WithSelf(Ret(c, self.cache[name].v), self)
    ELSE IF r.raised # "none" THEN r
    ELSE [r EXCEPT !.self.cache[name] = Cached(r.val)]

\* ident without the assignment to self.slug_ident
ident_func_keep(self, c) ==
    IF self.slug_ident = SELF_SEC_NAME \/ self.sec_template \in SEC_NAME_AS_IDENT
    THEN WithSelf(Ret(c, self.sec_name), self)
    ELSE WithSelf(getSlug(c, self.secret_id, self.slug_ident), self)

\* the body of SSCreds.ident
ident_func(self, c) ==
    IF self.slug_ident = SELF_SEC_NAME \/ self.sec_template \in SEC_NAME_AS_IDENT
    THEN WithSelf(Ret(c, self.sec_name), [self EXCEPT !.slug_ident = SELF_SEC_NAME])
    ELSE WithSelf(getSlug(c, self.secret_id, self.slug_ident), self)

\* SSCreds.ident
ident(self, c) == cached_property(ident_func(self, c), "ident", self, c)

\* the body of SSCreds.secret
secret_func(self, c) == WithSelf(getSlug(c, self.secret_id, self.slug_secret), self)

\* SSCreds.secret
secret(self, c) == cached_property(secret_func(self, c), "secret", self, c)

\* self._getTOTP()[0]["code"]: _getTOTP returns a str s; s[0] is a
\* one-character str (IndexError on the empty str), and subscripting a str
\* with "code" is a TypeError.
otp_k(r, self) ==
    IF r.raised # "none" THEN WithSelf(r, self)
    ELSE IF r.val = <<>> THEN WithSelf(Raise(r.c, "IndexError"), self)
    ELSE WithSelf(Raise(r.c, "TypeError"), self)

\* SSCreds.otp
otp(self, c) == otp_k(getTOTP(c, self.secret_id), self)

-----------------------------------------------------------------------------
(* One call of a public operation under every behaviour of the server *)

Call(name, url) == [name |-> name, url |-> url]

Exec(op, self, c) ==
    CASE op.name = "init" -> model_post_init(self, c)
      [] op.name = "ident" -> ident(self, c)
      [] op.name = "secret" -> secret(self, c)
      [] op.name = "otp" -> otp(self, c)
      [] op.name = "get" -> WithSelf(get(c, op.url), self)
      [] op.name = "post" -> WithSelf(post(c, op.url), self)

\* The results of op when the server answers ts, gs and then whatever the
\* operation goes on to ask for.
RECURSIVE Extend(_, _, _, _, _, _)
RECURSIVE Extend_k(_, _, _, _, _, _, _)
Extend_k(r, op, self, cat, crt, ts, gs) ==
    IF r.raised # "starved" THEN {r}
    ELSE IF r.c.want = TokenUrl
    THEN UNION {Extend(op, self, cat, crt, Append(ts, x), gs) : x \in TokenResponses}
    ELSE UNION {Extend(op, self, cat, crt, ts, Append(gs, y)) : y \in Responses(r.c.want)}

Extend(op, self, cat, crt, ts, gs) ==
    Extend_k(Exec(op, self, Ctx(cat, crt, self.token_type, ts, gs)),
             op, self, cat, crt, ts, gs)

Outcomes(op, self) == Extend(op, self, current_access_token, current_refresh_token, <<>>, <<>>)

IdentSlugs == {"username", SELF_SEC_NAME}
SecretSlugs == {"password"}

\* urls a caller hands to get/post directly
ApiUrls(self) == {FieldUrl(self.secret_id, self.slug_secret)}

-----------------------------------------------------------------------------
(* State machine *)

NoCall ==
    [op |-> "none", i |-> None, sent |-> <<>>, out |-> <<>>, raised |-> "none",
     val |-> None]

Init ==
    /\ current_access_token = None
    /\ current_refresh_token = None
    /\ inst = [i \in Instances |-> NoInst]
    /\ last = NoCall

Finish(i, name, r, self) ==
    /\ current_access_token' = r.c.cat
    /\ current_refresh_token' = r.c.crt
    /\ inst' = [inst EXCEPT ![i] = self]
    /\ last' = [op |-> name, i |-> i, sent |-> r.c.sent, out |-> r.c.out,
                raised |-> r.raised, val |-> r.val]

\* cred = SSCreds(secret_id=..., slug_ident=..., slug_secret=...): the new
\* object exists only if model_post_init returns
Construct(i) ==
    /\ ~inst[i].alive
    /\ \E id \in SecretIds, si \in IdentSlugs, ss \in SecretSlugs :
         \E r \in Outcomes(Call("init", NoWant), SSCreds(id, si, ss)) :
            Finish(i, "init", r,
                   IF r.raised = "none"
                   THEN [r.self EXCEPT !.token_type = r.c.tt]
                   ELSE NoInst)

\* cred.ident
Ident(i) ==
    /\ inst[i].alive
    /\ \E r \in Outcomes(Call("ident", NoWant), inst[i]) :
         Finish(i, "ident", r, [r.self EXCEPT !.token_type = r.c.tt])

\* cred.secret
Secret(i) ==
    /\ inst[i].alive
    /\ \E r \in Outcomes(Call("secret", NoWant), inst[i]) :
         Finish(i, "secret", r, [r.self EXCEPT !.token_type = r.c.tt])

\* cred.otp
Otp(i) ==
    /\ inst[i].alive
    /\ \E r \in Outcomes(Call("otp", NoWant), inst[i]) :
         Finish(i, "otp", r, [r.self EXCEPT !.token_type = r.c.tt])

\* cred.get(url, params)
Get(i) ==
    /\ inst[i].alive
    /\ \E u \in ApiUrls(inst[i]) :
         \E r \in Outcomes(Call("get", u), inst[i]) :
            Finish(i, "get", r, [r.self EXCEPT !.token_type = r.c.tt])

\* cred.post(url, data, params)
Post(i) ==
    /\ inst[i].alive
    /\ \E u \in ApiUrls(inst[i]) :
         \E r \in Outcomes(Call("post", u), inst[i]) :
            Finish(i, "post", r, [r.self EXCEPT !.token_type = r.c.tt])

\* the last reference to cred is dropped; the process (and its module
\* globals) lives on and can construct another instance
Discard(i) ==
    /\ inst[i].alive
    /\ inst' = [inst EXCEPT ![i] = NoInst]
    /\ last' = [NoCall EXCEPT !.op = "del", !.i = i]
    /\ UNCHANGED <<current_access_token, current_refresh_token>>

Next ==
    \E i \in Instances :
        \/ Construct(i)
        \/ Ident(i)
        \/ Secret(i)
        \/ Otp(i)
        \/ Get(i)
        \/ Post(i)
        \/ Discard(i)

Spec == Init /\ [][Next]_vars

-----------------------------------------------------------------------------
(* src/main.py: one run of the command line program in a fresh process.    *)
(* last.op is the statement that ran last; last.sent and last.out hold the *)
(* exchanges and the output of the whole run; an exception ends the run.   *)

\* the secret ids typed at the prompt
EnteredIds == {1234, 5}

Prompt == <<"Enter secret_id to retrieve: ">>

\* f"id: {cred.secret_id} ident: {cred.ident} secret: {cred.secret}"
ResultLine(secret_id, ident_value, secret_value) ==
    <<"id: ", ToString(secret_id), " ident: ">> \o ident_value
        \o <<" secret: ">> \o secret_value

MainCred == CHOOSE i \in Instances : TRUE

MainFinish(name, r, self, val) ==
    /\ current_access_token' = r.c.cat
    /\ current_refresh_token' = r.c.crt
    /\ inst' = [inst EXCEPT ![MainCred] = self]
    /\ last' = [op |-> name, i |-> MainCred, sent |-> last.sent \o r.c.sent,
                out |-> last.out \o r.c.out, raised |-> r.raised, val |-> val]

\* sec_id = int(input(...)); cred = SSCreds(secret_id=sec_id, ...)
MainConstruct ==
    /\ last.op = "none"
    /\ \E sec_id \in EnteredIds :
         \E r \in Outcomes(Call("init", NoWant), SSCreds(sec_id, "username", "password")) :
            MainFinish("init", [r EXCEPT !.c.out = <<Prompt>> \o @],
                       IF r.raised = "none"
                       THEN [r.self EXCEPT !.token_type = r.c.tt]
                       ELSE NoInst,
                       [ident |-> <<>>, secret |-> <<>>])

\* {cred.ident}
MainIdent ==
    /\ last.op = "init" /\ last.raised = "none"
    /\ \E r \in Outcomes(Call("ident", NoWant), inst[MainCred]) :
         MainFinish("ident", r, [r.self EXCEPT !.token_type = r.c.tt],
                    [ident |-> IF r.raised = "none" THEN r.val ELSE <<>>,
                     secret |-> <<>>])

\* {cred.secret}
MainSecret ==
    /\ last.op = "ident" /\ last.raised = "none"
    /\ \E r \in Outcomes(Call("secret", NoWant), inst[MainCred]) :
         MainFinish("secret", r, [r.self EXCEPT !.token_type = r.c.tt],
                    [ident |-> last.val.ident,
                     secret |-> IF r.raised = "none" THEN r.val ELSE <<>>])

\* print(f"...")
MainOutput ==
    /\ last.op = "secret" /\ last.raised = "none"
    /\ last' = [last EXCEPT
                  !.op = "print",
                  !.out = Append(@, ResultLine(inst[MainCred].secret_id,
                                               last.val.ident, last.val.secret))]
    /\ UNCHANGED <<current_access_token, current_refresh_token, inst>>

MainNext == MainConstruct \/ MainIdent \/ MainSecret \/ MainOutput

SpecMain == Init /\ [][MainNext]_vars

-----------------------------------------------------------------------------
(* _getSlug on every short field body: the server grants a token and       *)
(* answers the field GET with status 200 and the body text.                *)

MaxLen == 4

Chars == {QUOTE, "a", "b"}

Texts == UNION {[1..n -> Chars] : n \in 0..MaxLen}

GrantOk ==
    [err |-> FALSE, status |-> 200, access_token |-> "t1", refresh_token |-> "r1"]

GetSlugCall ==
    /\ \E text \in Texts :
         LET r == getSlug(Ctx(current_access_token, current_refresh_token, "cached",
                              <<GrantOk>>, <<Ok(text, NoJson)>>),
                          1234, "username")
         IN  last' = [op |-> "getSlug", i |-> MainCred, sent |-> r.c.sent,
                      out |-> r.c.out, raised |-> r.raised, val |-> r.val]
    /\ UNCHANGED <<current_access_token, current_refresh_token, inst>>

SpecSlug == Init /\ [][GetSlugCall]_vars

-----------------------------------------------------------------------------
(* Reading the exchanges of the last operation *)

IsGet(e) == e.method = "GET"
IsGrant(e) == e.method = "POST" /\ e.url = TokenUrl
IsPost(e) == e.method = "POST" /\ e.url # TokenUrl

Gets(sent) == SelectSeq(sent, IsGet)
Grants(sent) == SelectSeq(sent, IsGrant)
Posts(sent) == SelectSeq(sent, IsPost)

Answered(e) == ~e.resp.err /\ IsSuccess(e.resp.status)
Failed(e) == e.resp.err \/ ~IsSuccess(e.resp.status)
Expired(e) == Answered(e) /\ Contains(e.resp.text, MARK_EXPIRED)
Denied(e) == Answered(e) /\ Contains(e.resp.text, MARK_DENIED)

OkGrants(sent) == SelectSeq(Grants(sent), Answered)

\* the operations that send their request through get
GetOps == {"init", "ident", "secret", "otp", "get"}

\* the last exchange of the operation is a password grant that failed
EndsInFailedGrant(sent) ==
    sent # <<>> /\ IsGrant(sent[Len(sent)]) /\ Failed(sent[Len(sent)])

NameCase(self) ==
    self.slug_ident = SELF_SEC_NAME \/ self.sec_template \in {6041, 6047}

-----------------------------------------------------------------------------
(* Claims *)

\* C1: a successful password grant leaves the returned access token and
\* refresh token in the process-wide cache (while no expired-token marker
\* has been seen), so that later token resolutions reuse it.
C1_GrantIsCached ==
    LET g == OkGrants(last.sent)
    IN  (g # <<>> /\ \A k \in DOMAIN last.sent :
                         IsGrant(last.sent[k]) \/ ~Expired(last.sent[k]))
        => /\ current_access_token = g[1].resp.access_token
           /\ current_refresh_token = g[1].resp.refresh_token

\* C2 as stated: whenever the first GET response has a success status and a
\* body containing the expired-token marker, get sends the same GET a second
\* time (unless the token resolution of the retry fails).
C2_RetryWheneverExpired ==
    LET g == Gets(last.sent)
    IN  (last.op \in GetOps /\ g # <<>> /\ Expired(g[1]))
        => \/ Len(g) = 2 /\ g[2].url = g[1].url
           \/ EndsInFailedGrant(last.sent)

\* C2 amended: get sends at most two GETs, the second to the same url and
\* only after a first response with success status, the expired-token marker
\* and no access-denied marker; after such a response the retry happens
\* exactly once unless its token resolution fails; a retry response with
\* status 200 and no marker text is what get returns.
C2_SingleRetry ==
    LET g == Gets(last.sent)
    IN  last.op \in GetOps
        => /\ Len(g) <= 2
           /\ Len(g) = 2 => /\ g[2].url = g[1].url
                            /\ Expired(g[1]) /\ ~Denied(g[1])
           /\ (g # <<>> /\ Expired(g[1]) /\ ~Denied(g[1]))
              => \/ Len(g) = 2
                 \/ /\ EndsInFailedGrant(last.sent)
                    /\ last.raised \in {"TransportError", "HTTPStatusError"}
           /\ (last.op = "get" /\ Len(g) = 2 /\ ~g[2].resp.err
               /\ g[2].resp.status = 200 /\ ~HasMarker(g[2].resp.text))
              => last.raised = "none" /\ last.val = g[2].resp

C2_Witness ==
    /\ last.op = "get" /\ last.raised = "none"
    /\ Len(Gets(last.sent)) = 2
    /\ ~HasMarker(last.val.text)

\* C3: when the first GET response carries the expired-token marker and the
\* retry fails too (non-success status, or a body that still contains the
\* marker), get raises; it never returns a retry response that contains the
\* marker.
C3_RetryFailureEscalates ==
    LET g == Gets(last.sent)
    IN  (last.op = "get" /\ Len(g) = 2
         /\ (Failed(g[2]) \/ Contains(g[2].resp.text, MARK_EXPIRED)))
        => last.raised # "none"

\* C4: a GET response with status 200 whose body contains API_AccessDenied
\* ends the operation with the access-denied RuntimeError: nothing is sent
\* after it, no value is returned or memoized, construction fails.
C4_AccessDenied ==
    \A k \in DOMAIN last.sent :
        LET e == last.sent[k]
        IN  (IsGet(e) /\ ~e.resp.err /\ e.resp.status = 200
             /\ Contains(e.resp.text, MARK_DENIED))
            => /\ last.raised = "AccessDenied"
               /\ k = Len(last.sent)
               /\ last.op = "init" => ~inst[last.i].alive

C4_Witness ==
    /\ last.op \in {"ident", "secret"}
    /\ last.raised = "AccessDenied"
    /\ Len(Gets(last.sent)) = 2

\* a successful access of ident or secret memoizes the value it returns
C5_Stored ==
    (last.op \in {"ident", "secret"} /\ last.raised = "none")
    => inst[last.i].cache[last.op] = Cached(last.val)

C5_Step ==
    \A i \in Instances : \A name \in {"ident", "secret"} :
        (inst[i].alive /\ inst[i].cache[name].set /\ last'.i = i
         /\ last'.op \notin {"init", "del"})
        => /\ inst'[i].cache[name] = inst[i].cache[name]
           /\ last'.op = name
              => /\ last'.sent = <<>>
                 /\ last'.raised = "none"
                 /\ last'.val = inst[i].cache[name].v

\* C5: a successful access of ident (resp. secret) memoizes its value in the
\* instance; from then on no operation on the instance changes the memoized
\* value, and every access of that accessor returns it and sends no HTTP
\* request at all.
C5_Memoized == []C5_Stored /\ [][C5_Step]_vars

\* secret always asks the server on its first access, so a secret access
\* without any exchange is a memoized one
C5_Witness ==
    /\ last.op = "secret" /\ last.raised = "none" /\ last.sent = <<>>
    /\ inst[last.i].cache["ident"].set

\* C6 as stated: construction issues exactly one summary GET, never a second.
C6_ExactlyOneSummaryGet ==
    (last.op = "init" /\ Gets(last.sent) # <<>>) => Len(Gets(last.sent)) = 1

\* C6 amended: construction sends GETs to the summary url of the given secret
\* id only: one once a token is resolved, and a second one only as get's
\* retry after a first response carrying the expired-token marker (a failed
\* summary GET is not retried); a failure fails construction, and field
\* requests are sent only on behalf of a constructed instance.
C6_Construction ==
    LET g == Gets(last.sent)
    IN  /\ last.op = "init"
           => /\ \A k \in DOMAIN g : g[k].url.path = "summary"
              /\ Posts(last.sent) = <<>>
              /\ Len(g) <= 2
              /\ Len(g) = 2 => Expired(g[1])
              /\ OkGrants(last.sent) # <<>> => Len(g) >= 1
              /\ (g # <<>> /\ Failed(g[1])) => Len(g) = 1
              /\ last.raised # "none" => ~inst[last.i].alive
              /\ last.raised = "none"
                 => /\ inst[last.i].alive
                    /\ \A k \in DOMAIN g : g[k].url = SummaryUrl(inst[last.i].secret_id)
                    /\ inst[last.i].sec_template = g[Len(g)].resp.json.secretTemplateId
                    /\ inst[last.i].sec_name = g[Len(g)].resp.json.name
        /\ \A k \in DOMAIN g :
              g[k].url.path = "fields"
              => /\ last.op # "init"
                 /\ inst[last.i].alive
                 /\ inst[last.i].sec_template \in Templates

C6_Witness ==
    /\ last.op = "init" /\ last.raised = "none"
    /\ Len(Gets(last.sent)) = 2

\* C7: with a template id in {6041, 6047} or slug_ident = '$self._sec_name',
\* ident returns the display name got at construction and sends nothing;
\* otherwise its first access sends, once a token is resolved, GETs to the
\* field url of slug_ident and to no other url.
C7_Step ==
    \A i \in Instances :
        (inst[i].alive /\ last'.op = "ident" /\ last'.i = i)
        => IF NameCase(inst[i])
           THEN /\ last'.sent = <<>>
                /\ last'.raised = "none"
                /\ last'.val = inst[i].sec_name
           ELSE ~inst[i].cache["ident"].set
                => LET g == Gets(last'.sent)
                   IN  /\ last'.sent # <<>>
                       /\ OkGrants(last'.sent) # <<>> => g # <<>>
                       /\ \A k \in DOMAIN g :
                             g[k].url = FieldUrl(inst[i].secret_id, inst[i].slug_ident)

C7_NameAsIdent == [][C7_Step]_vars

C7_Witness ==
    /\ last.op = "ident" /\ last.raised = "none" /\ last.sent = <<>>
    /\ inst[last.i].sec_template = 6047
    /\ last.val = inst[last.i].sec_name

\* secret, accessed on self for the first time, asks the server for its field
\* and returns under some answer of the server
SecretStillWorks(self, cat, crt) ==
    LET rs == Extend(Call("secret", NoWant), self, cat, crt, <<>>, <<>>)
    IN  /\ \A r \in rs :
              /\ r.c.sent # <<>>
              /\ \A k \in DOMAIN r.c.sent :
                    IsGet(r.c.sent[k])
                    => r.c.sent[k].url = FieldUrl(self.secret_id, self.slug_secret)
        /\ \E r \in rs : r.raised = "none" /\ Gets(r.c.sent) # <<>>

\* C8: an access of ident that raises changes nothing in the instance or in
\* the process, and an access of secret after it still sends its own field
\* GET and can return a value.
C8_Step ==
    \A i \in Instances :
        (inst[i].alive /\ last'.op = "ident" /\ last'.i = i /\ last'.raised # "none")
        => /\ inst'[i] = inst[i]
           /\ current_access_token' = current_access_token
           /\ current_refresh_token' = current_refresh_token
           /\ ~inst[i].cache["secret"].set
              => SecretStillWorks(inst'[i], current_access_token',
                                  current_refresh_token')

C8_IdentFailureIsolated == [][C8_Step]_vars

C8_Witness ==
    /\ last.op = "ident" /\ last.raised \in {"HTTPStatusError", "AccessDenied"}
    /\ ~inst[last.i].cache["secret"].set
    /\ SecretStillWorks(inst[last.i], current_access_token, current_refresh_token)

\* C9: when the one-time-password GET succeeds with a JSON list of objects
\* holding code, durationSeconds and remainingSeconds, otp returns the code
\* of the first element.
C9_OtpReturnsCode ==
    LET g == Gets(last.sent)
    IN  (last.op = "otp" /\ g # <<>> /\ Answered(g[Len(g)])
         /\ g[Len(g)].resp.json.kind = "otplist")
        => /\ last.raised = "none"
           /\ last.val = g[Len(g)].resp.json.code

\* C10: post sends, once a token is resolved, exactly one POST to the target
\* url, its Authorization header "Bearer " + that token; it raises on a
\* non-success status and otherwise returns the response, expired-token
\* marker or not, and sends nothing else.
C10_PostSingleAttempt ==
    LET p == Posts(last.sent)
        t == Grants(last.sent)
    IN  last.op = "post"
        => /\ Gets(last.sent) = <<>>
           /\ Len(p) <= 1 /\ Len(t) <= 1
           /\ OkGrants(last.sent) # <<>>
              => /\ Len(p) = 1
                 /\ p[1].auth = <<"Bearer ", t[1].resp.access_token>>
                 /\ p[1].url \in ApiUrls(inst[last.i])
           /\ p # <<>> => /\ OkGrants(last.sent) # <<>>
                          /\ Failed(p[1]) => last.raised # "none"
                          /\ (~p[1].resp.err /\ ~IsSuccess(p[1].resp.status))
                             => last.raised = "HTTPStatusError"
                          /\ Answered(p[1])
                             => last.raised = "none" /\ last.val = p[1].resp

C10_Witness ==
    /\ last.op = "post" /\ last.raised = "none"
    /\ Contains(last.val.text, MARK_EXPIRED)
    /\ Len(Posts(last.sent)) = 1

\* a response whose body is a value between two double quotes, without
\* marker text
IsQuotedValue(e) ==
    /\ Answered(e)
    /\ Len(e.resp.text) >= 2
    /\ e.resp.text[1] = QUOTE /\ e.resp.text[Len(e.resp.text)] = QUOTE
    /\ \A k \in 2..(Len(e.resp.text) - 1) :
          e.resp.text[k] \notin {QUOTE, MARK_DENIED, MARK_EXPIRED}

Inner(text) == SubSeq(text, 2, Len(text) - 1)

IsResultLine(line) == line # <<>> /\ line[1] = "id: "

\* C11: in a run of the program that reaches its print, on a secret whose
\* template is not in {6041, 6047} and whose field responses are JSON-quoted
\* values u and p without marker text, the GETs go to the summary url, then
\* the username field, then the password field, and the output holds exactly
\* one result line, 'id: {id} ident: {u} secret: {p}' without the quotes.
C11_CliLine ==
    LET g == Gets(last.sent)
        n == Len(g)
        self == inst[last.i]
        f == SelectSeq(g, LAMBDA e : e.url.path = "fields")
    IN  (/\ last.op = "print"
         /\ self.sec_template \notin {6041, 6047}
         /\ \A k \in DOMAIN f : IsQuotedValue(f[k]))
        => /\ Len(f) = 2
           /\ f[1].url = FieldUrl(self.secret_id, "username")
           /\ f[2].url = FieldUrl(self.secret_id, "password")
           /\ n >= 3 /\ g[n] = f[2] /\ g[n - 1] = f[1]
           /\ \A k \in 1..(n - 2) : g[k].url = SummaryUrl(self.secret_id)
           /\ SelectSeq(last.out, IsResultLine)
              = << <<"id: ", ToString(self.secret_id), " ident: ">>
                   \o Inner(f[1].resp.text) \o <<" secret: ">>
                   \o Inner(f[2].resp.text) >>
           /\ last.out[Len(last.out)] = SelectSeq(last.out, IsResultLine)[1]

C11_Witness ==
    /\ last.op = "print"
    /\ inst[last.i].sec_template \notin {6041, 6047}
    /\ inst[last.i].secret_id = 1234
    /\ Len(Gets(last.sent)) = 3
    /\ \A k \in 2..3 : IsQuotedValue(Gets(last.sent)[k])

\* C12: the value _getSlug resolves from a field body is the body without its
\* leading and trailing double quotes, every other character unchanged: the
\* body is i quotes, the value, j quotes, and the value neither starts nor
\* ends with a quote.
C12_QuotesStripped ==
    (last.op = "getSlug" /\ last.raised = "none")
    => LET t == Gets(last.sent)[1].resp.text
           v == last.val
       IN  /\ \E i \in 0..Len(t) :
                 LET j == Len(t) - Len(v) - i
                 IN  /\ j >= 0
                     /\ \A k \in 1..i : t[k] = QUOTE
                     /\ \A k \in 1..j : t[Len(t) - k + 1] = QUOTE
                     /\ \A k \in 1..Len(v) : v[k] = t[i + k]
           /\ v # <<>> => v[1] # QUOTE /\ v[Len(v)] # QUOTE
           /\ (\A k \in DOMAIN t : t[k] # QUOTE) => v = t

C12_Witness ==
    /\ last.op = "getSlug" /\ last.raised = "none"
    /\ Gets(last.sent)[1].resp.text = <<QUOTE, QUOTE, "a", QUOTE>>
    /\ last.val = <<"a">>

\* C13 as stated: a retry response with a success status is returned to the
\* caller whatever marker text its body contains.
C13_RetryUnchecked ==
    LET g == Gets(last.sent)
    IN  (last.op = "get" /\ Len(g) = 2 /\ Answered(g[2]))
        => last.raised = "none" /\ last.val = g[2].resp

\* C13 amended: the first attempt is checked for HTTP status, the
\* access-denied marker and the expired-token marker; the retry is checked
\* for HTTP status and the access-denied marker, not for the expired-token
\* marker: a retry response with a success status and no access-denied
\* marker is returned, with or without the expired-token marker.
C13_RetryAsymmetry ==
    LET g == Gets(last.sent)
    IN  (last.op = "get" /\ g # <<>>)
        => /\ (Answered(g[1]) /\ ~HasMarker(g[1].resp.text))
              => Len(g) = 1 /\ last.raised = "none" /\ last.val = g[1].resp
           /\ Failed(g[1]) => Len(g) = 1 /\ last.raised # "none"
           /\ Denied(g[1]) => Len(g) = 1 /\ last.raised = "AccessDenied"
           /\ Len(g) = 2
              => /\ Expired(g[1])
                 /\ Failed(g[2])
                    => last.raised \in {"TransportError", "HTTPStatusError"}
                 /\ Denied(g[2]) => last.raised = "AccessDenied"
                 /\ (Answered(g[2]) /\ ~Denied(g[2]))
                    => last.raised = "none" /\ last.val = g[2].resp

C13_Witness ==
    /\ last.op = "get" /\ last.raised = "none"
    /\ Len(Gets(last.sent)) = 2
    /\ Contains(last.val.text, MARK_EXPIRED)

\* C14: the GET sent as retry after an expired-token response carries a token
\* obtained by a password grant made after that response, never the access
\* token the process-wide cache held when the operation started.
C14_Step ==
    LET s == last'.sent
        n == Len(s)
    IN  (last'.op \in GetOps /\ Len(Gets(s)) = 2)
        => /\ n >= 3
           /\ IsGet(s[n]) /\ IsGrant(s[n - 1]) /\ Answered(s[n - 1])
           /\ IsGet(s[n - 2]) /\ Expired(s[n - 2])
           /\ s[n].auth = <<"Bearer ", s[n - 1].resp.access_token>>
           /\ s[n].auth # <<"Bearer ", current_access_token>>

C15_ServerProvenance ==
    (last.op \in GetOps \cup {"post"} /\ OkGrants(last.sent) # <<>>
     /\ inst[last.i].alive)
    => inst[last.i].token_type = "server"

Accessors == {"ident", "secret", "otp"}

\* the token a request carries, read back from its Authorization header
IsBearer(auth) == Len(auth) = 2 /\ auth[1] = "Bearer " /\ auth[2] \in Tokens

\* C16: every access of otp, whatever the instance has cached and whatever
\* was accessed before, resolves a token and sends its GET(s) to
\* api/v1/one-time-password-code/{id} with that token; it never answers
\* without a request.
C16_Step ==
    \A i \in Instances :
        (inst[i].alive /\ last'.op = "otp" /\ last'.i = i)
        => LET s == last'.sent
               g == Gets(s)
           IN  /\ s # <<>>
               /\ g = <<>> => EndsInFailedGrant(s)
               /\ \A k \in DOMAIN g :
                     /\ g[k].url = OtpUrl(inst[i].secret_id)
                     /\ IsBearer(g[k].auth)
               /\ inst'[i].cache = inst[i].cache

C16_OtpNotMemoized == [][C16_Step]_vars

C16_Witness ==
    /\ last.op = "otp" /\ Gets(last.sent) # <<>>
    /\ Gets(last.sent)[1].url = OtpUrl(inst[last.i].secret_id)
    /\ inst[last.i].cache["ident"].set
    /\ inst[last.i].cache["secret"].set

\* the field an accessor asks the server for
SlugOf(name, self) == IF name = "ident" THEN self.slug_ident ELSE self.slug_secret

\* the accessor name, accessed on self while the server grants a token and
\* answers the field GET with a plain body, sends that GET and returns and
\* stores the value
AccessorReturns(name, self, cat, crt) ==
    LET r == Exec(Call(name, NoWant), self,
                  Ctx(cat, crt, self.token_type, <<GrantOk>>,
                      <<Ok(<<"a">>, NoJson)>>))
        g == Gets(r.c.sent)
    IN  /\ r.raised = "none"
        /\ Len(g) = 1
        /\ g[1].url = FieldUrl(self.secret_id, SlugOf(name, self))
        /\ r.self.cache[name] = Cached(r.val)

\* C17: an access of ident or secret that raises stores no value for that
\* accessor, and the next access of the same accessor sends a new field GET
\* (under every answer of the server) and can return a value.
C17_Step ==
    \A i \in Instances :
        /\ (inst[i].alive /\ last'.op \in {"ident", "secret"} /\ last'.i = i
            /\ last'.raised # "none")
           => /\ last'.raised \in {"HTTPStatusError", "AccessDenied", "TransportError"}
              /\ ~inst'[i].cache[last'.op].set
              /\ AccessorReturns(last'.op, inst'[i], current_access_token',
                                 current_refresh_token')
        /\ (inst[i].alive /\ last.op \in {"ident", "secret"} /\ last.i = i
            /\ last.raised # "none" /\ last'.op = last.op /\ last'.i = i)
           => LET s == last'.sent
                  g == Gets(s)
              IN  /\ s # <<>>
                  /\ g = <<>> => EndsInFailedGrant(s)
                  /\ \A k \in DOMAIN g :
                        g[k].url = FieldUrl(inst[i].secret_id, SlugOf(last.op, inst[i]))

C17_FailureNotMemoized == [][C17_Step]_vars

C17_Witness ==
    /\ last.op = "secret" /\ last.raised = "TransportError"
    /\ Gets(last.sent) # <<>>
    /\ ~inst[last.i].cache["secret"].set
    /\ AccessorReturns("secret", inst[last.i], current_access_token,
                       current_refresh_token)

\* C18: ident, secret and otp leave secret_id and slug_secret unchanged, and
\* leave slug_ident unchanged except that an access of ident that runs the
\* accessor body on an instance whose template id is 6041 or 6047 sets it to
\* the sentinel.
C18_Step ==
    \A i \in Instances :
        (inst[i].alive /\ last'.op \in Accessors /\ last'.i = i)
        => /\ inst'[i].secret_id = inst[i].secret_id
           /\ inst'[i].slug_secret = inst[i].slug_secret
           /\ inst'[i].slug_ident =
                 IF /\ last'.op = "ident"
                    /\ ~inst[i].cache["ident"].set
                    /\ inst[i].sec_template \in {6041, 6047}
                 THEN SELF_SEC_NAME
                 ELSE inst[i].slug_ident

C18_AccessorFrame == [][C18_Step]_vars

C18_Witness ==
    /\ last.op = "ident" /\ last.raised = "none"
    /\ inst[last.i].sec_template = 6041
    /\ inst[last.i].slug_ident = SELF_SEC_NAME
    /\ inst[last.i].slug_secret = "password"
    /\ inst[last.i].cache["ident"] = Cached(inst[last.i].sec_name)

====
